---- MODULE Spec2Model ----
(***************************************************************************)
(* Stremio addon manifest validator: the two-pass schema check of          *)
(* src/lib/validation.ts and the App component's state and handlers        *)
(* (input acquisition, URL fetch, debounced auto-fetch, share link).       *)
(***************************************************************************)
EXTENDS Integers, Sequences, FiniteSets, TLC

VARIABLES
    input,             \* useState("") : the text area's text
    isCopied,          \* useState(false)
    validationResult,  \* useState(null) : Null or an outcome of validate
    isLoading,         \* useState(false)
    location,          \* window.location.search : the ?data= parameter
    clipboard,         \* navigator.clipboard : the data parameter of the link it holds
    isDragging,        \* useState(false)
    timer,             \* pending debounce timeouts (the trimmedInput each captured)
    autoFetching,      \* auto-fetch requests in flight (the URL of each)
    validating,        \* handleValidate invocations awaiting their fetch
    manifest,          \* argument of a direct call of validate
    result             \* value returned by that call

vars == <<input, isCopied, validationResult, isLoading, location, clipboard,
          isDragging, timer, autoFetching, validating, manifest, result>>

appVars == <<input, isCopied, validationResult, isLoading, location, clipboard,
             isDragging, timer, autoFetching, validating>>

----------------------------------------------------------------------------
(* Bounds *)

\* number of distinct undeclared key names a document may carry at top level
NumUnknown == 2

\* auto-fetch requests that may be in flight at once
MaxAutoFetch == 1

----------------------------------------------------------------------------
(* JSON values.  A value is a record [kind, fields]; scalars have no fields, *)
(* an object maps its keys to values.                                        *)

Scalar(k) == [kind |-> k, fields |-> <<>>]

Obj(f) == [kind |-> "object", fields |-> f]

Keys(v) == DOMAIN v.fields

UnknownNames == <<"extra1", "extra2", "extra3", "extra4">>

UnknownKeys == {UnknownNames[i] : i \in 1..NumUnknown}

\* objects found under "behaviorHints": the declared "adult" (boolean), an
\* "adult" of the wrong type, an undeclared nested key
NestedObjects ==
    {Obj(a @@ b) :
        a \in {<<>>, "adult" :> Scalar("boolean"), "adult" :> Scalar("number")},
        b \in {<<>>, "nestedExtra" :> Scalar("number")}}

Docs ==
    {Scalar("string"), Scalar("number")} \cup
    {Obj(a @@ b @@ c) :
        a \in {<<>>, "id" :> Scalar("string"), "id" :> Scalar("number")},
        b \in {<<>>} \cup {"behaviorHints" :> h : h \in NestedObjects \cup {Scalar("number")}},
        c \in UNION {[S -> {Scalar("number")}] : S \in SUBSET UnknownKeys}}

----------------------------------------------------------------------------
(* The schema passes.  manifestSchema is an object schema; the fragment    *)
(* modelled declares a required string "id" and an optional object         *)
(* "behaviorHints" with an optional boolean "adult".                        *)

DeclaredKeys == {"id", "behaviorHints"}

NestedDeclaredKeys == {"adult"}

InvalidType(path) ==
    [code |-> "invalid_type", path |-> path, message |-> "Invalid input"]

UnrecognizedKeys(path, ks) ==
    [code |-> "unrecognized_keys", path |-> path, keys |-> ks,
     message |-> "Unrecognized keys"]

Restrict(f, S) == [k \in (DOMAIN f) \cap S |-> f[k]]

\* issues of the declared fields of an object m, in declaration order
ShapeIssues(m) ==
    (IF "id" \notin Keys(m) \/ m.fields["id"].kind # "string"
        THEN <<InvalidType(<<"id">>)>> ELSE <<>>)
    \o
    (IF "behaviorHints" \notin Keys(m) THEN <<>>
     ELSE LET h == m.fields["behaviorHints"] IN
          IF h.kind # "object" THEN <<InvalidType(<<"behaviorHints">>)>>
          ELSE IF "adult" \in Keys(h) /\ h.fields["adult"].kind # "boolean"
               THEN <<InvalidType(<<"behaviorHints", "adult">>)>>
               ELSE <<>>)

\* the parsed output: undeclared keys are dropped, at every level
Stripped(m) ==
    Obj([k \in Keys(m) \cap DeclaredKeys |->
            IF k = "behaviorHints"
               THEN Obj(Restrict(m.fields[k].fields, NestedDeclaredKeys))
               ELSE m.fields[k]])

\* .strict() rejects the undeclared keys of the object it is called on, in
\* one issue listing them; nested objects keep their own mode
StrictIssues(m) ==
    LET extra == Keys(m) \ DeclaredKeys
    IN  IF extra = {} THEN <<>> ELSE <<UnrecognizedKeys(<<>>, extra)>>

\* manifestSchema.safeParse(m) when strict = FALSE,
\* manifestSchema.strict().safeParse(m) when strict = TRUE
safeParse(m, strict) ==
    IF m.kind # "object"
       THEN [success |-> FALSE, error |-> <<InvalidType(<<>>)>>]
       ELSE LET issues == ShapeIssues(m) \o (IF strict THEN StrictIssues(m) ELSE <<>>)
            IN  IF issues = <<>>
                   THEN [success |-> TRUE, data |-> Stripped(m)]
                   ELSE [success |-> FALSE, error |-> issues]

\* validate with the strict pass run first and its issues returned as the error
validateStrictFirst(m) ==
    LET strictResult == safeParse(m, TRUE)
    IN  IF strictResult.success
           THEN [success |-> TRUE, data |-> strictResult.data]
           ELSE IF safeParse(m, FALSE).success
                   THEN [success |-> TRUE, data |-> safeParse(m, FALSE).data,
                         warning |-> strictResult.error]
                   ELSE [success |-> FALSE, error |-> strictResult.error]

\* validate returning the strict issues under error instead of warning
validateWarningAsError(m) ==
    LET r == safeParse(m, FALSE)
    IN  IF r.success
           THEN LET strictResult == safeParse(m, TRUE)
                IN  IF ~strictResult.success
                       THEN [success |-> FALSE, error |-> strictResult.error]
                       ELSE [success |-> TRUE, data |-> r.data]
           ELSE [success |-> FALSE, error |-> r.error]

\* validate with the test of the strict result inverted
validateInverted(m) ==
    LET r == safeParse(m, FALSE)
    IN  IF r.success
           THEN LET strictResult == safeParse(m, TRUE)
                IN  IF strictResult.success
                       THEN [success |-> TRUE, data |-> r.data, warning |-> <<>>]
                       ELSE [success |-> TRUE, data |-> r.data]
           ELSE [success |-> FALSE, error |-> r.error]

\* validate reporting a failed permissive match the way handleValidate's catch
\* reports an exception: as one custom issue at the root path
validateFlattened(m) ==
    LET r == safeParse(m, FALSE)
    IN  IF r.success
           THEN LET strictResult == safeParse(m, TRUE)
                IN  IF ~strictResult.success
                       THEN [success |-> TRUE, data |-> r.data,
                             warning |-> strictResult.error]
                       ELSE [success |-> TRUE, data |-> r.data]
           ELSE [success |-> FALSE,
                 error |-> <<[code |-> "custom", path |-> <<>>,
                              message |-> "Invalid input"]>>]

validate(m) ==
    LET r == safeParse(m, FALSE)
    IN  IF r.success
           THEN LET strictResult == safeParse(m, TRUE)
                IN  IF ~strictResult.success
                       THEN [success |-> TRUE, data |-> r.data,
                             warning |-> strictResult.error]
                       ELSE [success |-> TRUE, data |-> r.data]
           ELSE [success |-> FALSE, error |-> r.error]

----------------------------------------------------------------------------
(* Texts.  A text is whitespace alone ("empty"), a URL starting with       *)
(* http:// or https:// ("url", ending or not with manifest.json), a JSON    *)
(* serialization of a value ("json", in the two-space layout of             *)
(* JSON.stringify(v, null, 2) or in another layout), or anything else       *)
(* ("other"); pad tells whether whitespace surrounds it.                    *)

EmptyString == [kind |-> "empty", pad |-> FALSE]

\* the documents typed, dropped, shared and served in the application runs:
\* one fully conforming, one conforming with an undeclared key, one violating
AppDocs ==
    {Obj("id" :> Scalar("string")),
     Obj(("id" :> Scalar("string")) @@ ("extra1" :> Scalar("number"))),
     Obj("behaviorHints" :> Obj(<<>>))}

Texts ==
    {[kind |-> "empty", pad |-> p] : p \in BOOLEAN} \cup
    {[kind |-> "other", pad |-> p] : p \in BOOLEAN} \cup
    {[kind |-> "url", pad |-> p, manifestJson |-> e] : p \in BOOLEAN, e \in BOOLEAN} \cup
    {[kind |-> "json", pad |-> p, value |-> d, pretty |-> f] :
        p \in BOOLEAN, d \in AppDocs, f \in BOOLEAN}

\* String.prototype.trim
trim(t) == [t EXCEPT !.pad = FALSE]

\* !s : the empty string is the only falsy string
IsFalsy(t) == t = EmptyString

\* s.startsWith("http://") || s.startsWith("https://")
startsWithHttp(t) == t.kind = "url" /\ ~t.pad

\* s.endsWith("manifest.json")
endsWithManifestJson(t) == t.kind = "url" /\ ~t.pad /\ t.manifestJson

\* JSON.parse(s) returns a value (TRUE) or throws (FALSE); whitespace around
\* the value is accepted
parses(t) == t.kind = "json"

parse(t) == t.value

\* JSON.stringify(v, null, 2)
stringify(v) == [kind |-> "json", pad |-> FALSE, value |-> v, pretty |-> TRUE]

\* LZString.compressToEncodedURIComponent / decompressFromEncodedURIComponent;
\* what is no output of the compressor decompresses to null
compressToEncodedURIComponent(t) == [param |-> "lz", text |-> t]

NoData == [param |-> "absent"]

InvalidData == [param |-> "invalid"]

Locations == {NoData, InvalidData} \cup {compressToEncodedURIComponent(t) : t \in Texts}

decompresses(d) == d.param = "lz"

decompressFromEncodedURIComponent(d) == d.text

----------------------------------------------------------------------------
(* Outcomes *)

Null == [null |-> TRUE]

\* the catch block publishing a failure that carries no error
CustomFailureNoError(msg) == [success |-> FALSE]

\* new ZodError([{ code: "custom", path: [], message }])
CustomFailure(msg) ==
    [success |-> FALSE,
     error |-> <<[code |-> "custom", path |-> <<>>, message |-> msg]>>]

\* what a fetch of a URL may settle to: a network error, a non-ok status, a
\* body that is no JSON, or a JSON body
FetchFailures == {"network error", "not ok", "body is not JSON"}

FetchOutcomes ==
    {[ok |-> FALSE, why |-> w] : w \in FetchFailures} \cup
    {[ok |-> TRUE, data |-> d] : d \in AppDocs}

\* "Failed to fetch manifest: " + (e as Error).message
FetchMessage(why) ==
    CASE why = "network error" -> "Failed to fetch manifest: <message of the error fetch threw>"
      [] why = "not ok" -> "Failed to fetch manifest: Failed to fetch: <statusText>"
      [] why = "body is not JSON" -> "Failed to fetch manifest: <message of the error json threw>"

----------------------------------------------------------------------------
(* The App component *)

\* the effect without its dependency list: it runs after every render
debounceEveryRender(new, old, pending) ==
    LET trimmedInput == trim(new)
    IN  IF startsWithHttp(trimmedInput) /\ endsWithManifestJson(trimmedInput)
           THEN {trimmedInput} ELSE {}

\* the [input] effect: a change of input clears the pending timeout and, when
\* the trimmed input is a URL ending with manifest.json, schedules a new one
debounce(new, old, pending) ==
    IF new = old THEN pending
    ELSE LET trimmedInput == trim(new)
         IN  IF startsWithHttp(trimmedInput) /\ endsWithManifestJson(trimmedInput)
                THEN {trimmedInput} ELSE {}

\* handleValidate without setValidationResult(null) at its start
handleValidateKeepsResult(currentInput, inp, shown) ==
    LET trimmedInput == trim(currentInput)
    IN  IF IsFalsy(trimmedInput)
           THEN [input |-> inp, isLoading |-> FALSE, awaits |-> FALSE,
                 validationResult |-> CustomFailure("Please enter JSON content or a URL")]
        ELSE IF startsWithHttp(trimmedInput)
           THEN [input |-> inp, isLoading |-> TRUE, awaits |-> TRUE,
                 validationResult |-> shown]
        ELSE IF parses(trimmedInput)
           THEN [input |-> stringify(parse(trimmedInput)), isLoading |-> FALSE,
                 awaits |-> FALSE,
                 validationResult |-> validate(parse(trimmedInput))]
        ELSE [input |-> inp, isLoading |-> FALSE, awaits |-> FALSE,
              validationResult |-> CustomFailure("Invalid JSON format: <message of the error parse threw>")]

\* handleValidate testing !currentInput instead of !trimmedInput: whitespace
\* alone reaches JSON.parse, which throws
handleValidateNoTrim(currentInput, inp, shown) ==
    LET trimmedInput == trim(currentInput)
    IN  IF IsFalsy(currentInput)
           THEN [input |-> inp, isLoading |-> FALSE, awaits |-> FALSE,
                 validationResult |-> CustomFailure("Please enter JSON content or a URL")]
        ELSE IF startsWithHttp(trimmedInput)
           THEN [input |-> inp, isLoading |-> TRUE, awaits |-> TRUE,
                 validationResult |-> Null]
        ELSE IF parses(trimmedInput)
           THEN [input |-> stringify(parse(trimmedInput)), isLoading |-> FALSE,
                 awaits |-> FALSE,
                 validationResult |-> validate(parse(trimmedInput))]
        ELSE [input |-> inp, isLoading |-> FALSE, awaits |-> FALSE,
              validationResult |-> CustomFailure("Invalid JSON format: <message of the error parse threw>")]

\* handleValidate up to its first await or its end, called with currentInput
\* while the input state is inp and the result state is shown: the states it
\* sets, and whether it awaits a fetch
handleValidate(currentInput, inp, shown) ==
    LET trimmedInput == trim(currentInput)
    IN  IF IsFalsy(trimmedInput)
           THEN [input |-> inp, isLoading |-> FALSE, awaits |-> FALSE,
                 validationResult |-> CustomFailure("Please enter JSON content or a URL")]
        ELSE IF startsWithHttp(trimmedInput)
           THEN [input |-> inp, isLoading |-> TRUE, awaits |-> TRUE,
                 validationResult |-> Null]
        ELSE IF parses(trimmedInput)
           THEN [input |-> stringify(parse(trimmedInput)), isLoading |-> FALSE,
                 awaits |-> FALSE,
                 validationResult |-> validate(parse(trimmedInput))]
        ELSE [input |-> inp, isLoading |-> FALSE, awaits |-> FALSE,
              validationResult |-> CustomFailure("Invalid JSON format: <message of the error parse threw>")]

\* handleValidate without the test of response.ok: the body of a non-ok
\* response goes to response.json(), which throws on it
afterFetchNoOkCheck(o) ==
    IF o.ok THEN validate(o.data)
    ELSE CustomFailure(FetchMessage(IF o.why = "not ok" THEN "body is not JSON" ELSE o.why))

\* handleValidate after its fetch settled with outcome o: the result it sets
afterFetch(o) ==
    IF o.ok THEN validate(o.data)
    ELSE CustomFailure(FetchMessage(o.why))

\* the timeout callback after its fetch settled with outcome o: the input it
\* leaves
autoFetched(o, inp) ==
    IF o.ok THEN stringify(o.data) ELSE inp

\* the mount effect calling handleValidate() without the decompressed text, so
\* that it reads the input state of the first render, still ""
MountedStaleInput(d) ==
    IF decompresses(d) /\ ~IsFalsy(decompressFromEncodedURIComponent(d))
       THEN LET decompressed == decompressFromEncodedURIComponent(d)
                h == handleValidate(EmptyString, decompressed, Null)
            IN  [input |-> h.input, validationResult |-> h.validationResult,
                 isLoading |-> h.isLoading,
                 validating |-> IF h.awaits THEN 1 ELSE 0,
                 timer |-> debounce(h.input, EmptyString, {})]
       ELSE [input |-> EmptyString, validationResult |-> Null,
             isLoading |-> FALSE, validating |-> 0, timer |-> {}]

\* the component after its first render and its mount effects, loaded at a
\* location whose data parameter is d
Mounted(d) ==
    IF decompresses(d) /\ ~IsFalsy(decompressFromEncodedURIComponent(d))
       THEN LET decompressed == decompressFromEncodedURIComponent(d)
                h == handleValidate(decompressed, decompressed, Null)
            IN  [input |-> h.input, validationResult |-> h.validationResult,
                 isLoading |-> h.isLoading,
                 validating |-> IF h.awaits THEN 1 ELSE 0,
                 timer |-> debounce(h.input, EmptyString, {})]
       ELSE [input |-> EmptyString, validationResult |-> Null,
             isLoading |-> FALSE, validating |-> 0, timer |-> {}]

InitApp(d) ==
    LET m == Mounted(d)
    IN  /\ location = d
        /\ input = m.input
        /\ validationResult = m.validationResult
        /\ isLoading = m.isLoading
        /\ validating = m.validating
        /\ timer = m.timer
        /\ autoFetching = <<>>
        /\ isCopied = FALSE
        /\ isDragging = FALSE
        /\ clipboard = NoData

Init ==
    /\ \E d \in Locations : InitApp(d)
    /\ manifest = Scalar("number")
    /\ result = Null

\* the page is loaded again at the current location: every state is new and
\* what was pending belongs to the page that is gone
Load ==
    LET m == Mounted(location)
    IN  /\ input' = m.input
        /\ validationResult' = m.validationResult
        /\ isLoading' = m.isLoading
        /\ validating' = m.validating
        /\ timer' = m.timer
        /\ autoFetching' = <<>>
        /\ isCopied' = FALSE
        /\ isDragging' = FALSE
        /\ UNCHANGED <<location, clipboard, manifest, result>>

\* onChange of the text area
Type(t) ==
    /\ t # input
    /\ input' = t
    /\ timer' = debounce(t, input, timer)
    /\ UNCHANGED <<isCopied, validationResult, isLoading, location, isDragging,
                   autoFetching, validating, clipboard,
                   manifest, result>>

\* onPaste: a pasted JSON object replaces the input by its formatted text;
\* any other paste is the default edit (Type)
handlePaste(pastedText) ==
    /\ parses(pastedText)
    /\ parse(pastedText).kind = "object"
    /\ input' = stringify(parse(pastedText))
    /\ timer' = debounce(input', input, timer)
    /\ UNCHANGED <<isCopied, validationResult, isLoading, location, isDragging,
                   autoFetching, validating, clipboard,
                   manifest, result>>

\* onBlur
formatJson ==
    /\ input' = IF parses(input) THEN stringify(parse(input)) ELSE input
    /\ timer' = debounce(input', input, timer)
    /\ UNCHANGED <<isCopied, validationResult, isLoading, location, isDragging,
                   autoFetching, validating, clipboard,
                   manifest, result>>

handleDragOver ==
    /\ isDragging' = TRUE
    /\ UNCHANGED <<input, isCopied, validationResult, isLoading, location, timer,
                   autoFetching, validating, clipboard,
                   manifest, result>>

handleDragLeave ==
    /\ isDragging' = FALSE
    /\ UNCHANGED <<input, isCopied, validationResult, isLoading, location, timer,
                   autoFetching, validating, clipboard,
                   manifest, result>>

\* reader.onload showing the content of the file as it is
droppedRaw(content) == content

\* the text a dropped file of this content leaves in the input
dropped(content) ==
    IF parses(content) THEN stringify(parse(content)) ELSE content

\* onDrop of a file and the onload of its reader
handleDrop(content) ==
    /\ isDragging' = FALSE
    /\ input' = dropped(content)
    /\ timer' = debounce(input', input, timer)
    /\ UNCHANGED <<isCopied, validationResult, isLoading, location,
                   autoFetching, validating, clipboard,
                   manifest, result>>

\* handleShare compressing the trimmed input
handleShareTrimmed ==
    /\ ~IsFalsy(trim(input))
    /\ location' = compressToEncodedURIComponent(trim(input))
    /\ clipboard' = location'
    /\ isCopied' = TRUE
    /\ UNCHANGED <<input, validationResult, isLoading, isDragging, timer,
                   autoFetching, validating, manifest, result>>

\* the share button, disabled while the trimmed input is empty
handleShare ==
    /\ ~IsFalsy(trim(input))
    /\ location' = compressToEncodedURIComponent(input)
    /\ clipboard' = location'
    /\ isCopied' = TRUE
    /\ UNCHANGED <<input, validationResult, isLoading, isDragging, timer,
                   autoFetching, validating, manifest, result>>

\* setTimeout(() => setIsCopied(false), 2000)
CopiedTimeout ==
    /\ isCopied
    /\ isCopied' = FALSE
    /\ UNCHANGED <<input, validationResult, isLoading, location, isDragging, timer,
                   autoFetching, validating, clipboard,
                   manifest, result>>

\* the validate button, disabled while loading or while the trimmed input is
\* empty
ClickValidate ==
    /\ ~isLoading
    /\ ~IsFalsy(trim(input))
    /\ LET h == handleValidate(input, input, validationResult)
       IN  /\ input' = h.input
           /\ validationResult' = h.validationResult
           /\ isLoading' = h.isLoading
           /\ validating' = IF h.awaits THEN validating + 1 ELSE validating
           /\ timer' = debounce(h.input, input, timer)
    /\ UNCHANGED <<isCopied, location, isDragging, autoFetching, clipboard,
                   manifest, result>>

\* handleValidate without its finally block: isLoading is reset only after
\* the try block ran to its end
ValidateSettleNoFinally(o) ==
    /\ validating > 0
    /\ validating' = validating - 1
    /\ validationResult' = afterFetch(o)
    /\ isLoading' = IF o.ok THEN FALSE ELSE isLoading
    /\ UNCHANGED <<input, isCopied, location, isDragging, timer, autoFetching,
                   clipboard,
                   manifest, result>>

\* the fetch of handleValidate settles
ValidateSettle(o) ==
    /\ validating > 0
    /\ validating' = validating - 1
    /\ validationResult' = afterFetch(o)
    /\ isLoading' = FALSE
    /\ UNCHANGED <<input, isCopied, location, isDragging, timer, autoFetching,
                   clipboard,
                   manifest, result>>

\* the debounce timeout fires after 500 ms without a change of input and
\* starts its fetch
TimerFire ==
    /\ Len(autoFetching) < MaxAutoFetch
    /\ \E trimmedInput \in timer :
          /\ timer' = timer \ {trimmedInput}
          /\ autoFetching' = Append(autoFetching, trimmedInput)
    /\ UNCHANGED <<input, isCopied, validationResult, isLoading, location,
                   isDragging, validating, clipboard,
                   manifest, result>>

Remove(seq, i) == SubSeq(seq, 1, i - 1) \o SubSeq(seq, i + 1, Len(seq))

\* the i-th auto-fetch in flight settles
AutoSettle(i, o) ==
    /\ i \in 1..Len(autoFetching)
    /\ autoFetching' = Remove(autoFetching, i)
    /\ input' = autoFetched(o, input)
    /\ timer' = debounce(input', input, timer)
    /\ UNCHANGED <<isCopied, validationResult, isLoading, location, isDragging,
                   validating, clipboard,
                   manifest, result>>

\* the result rendering that tests only validationResult.success
ShownBlocksIgnoresWarning(r) ==
    IF r = Null THEN {}
    ELSE IF r.success THEN {"success"}
    ELSE {"error"}

\* the blocks the component renders for the result state r:
\* {validationResult && (success ? (warning ? warning : success) : error)}
ShownBlocks(r) ==
    IF r = Null THEN {}
    ELSE IF r.success
            THEN (IF "warning" \in DOMAIN r THEN {"warning"} ELSE {"success"})
    ELSE {"error"}

Next ==
    \/ Load
    \/ \E t \in Texts : Type(t)
    \/ \E t \in Texts : handlePaste(t)
    \/ formatJson
    \/ handleDragOver
    \/ handleDragLeave
    \/ \E t \in Texts : handleDrop(t)
    \/ handleShare
    \/ CopiedTimeout
    \/ ClickValidate
    \/ \E o \in FetchOutcomes : ValidateSettle(o)
    \/ TimerFire
    \/ \E i \in 1..MaxAutoFetch, o \in FetchOutcomes : AutoSettle(i, o)

Spec == Init /\ [][Next]_vars

\* the steps of one page, from its load to the next load
NextSession ==
    \/ \E t \in Texts : Type(t)
    \/ \E t \in Texts : handlePaste(t)
    \/ formatJson
    \/ handleDragOver
    \/ handleDragLeave
    \/ \E t \in Texts : handleDrop(t)
    \/ handleShare
    \/ CopiedTimeout
    \/ ClickValidate
    \/ \E o \in FetchOutcomes : ValidateSettle(o)
    \/ TimerFire
    \/ \E i \in 1..MaxAutoFetch, o \in FetchOutcomes : AutoSettle(i, o)

\* the fetch that handleValidate awaits settles: with a response or an error
FetchSettles == WF_vars(\E o \in FetchOutcomes : ValidateSettle(o))

\* one page whose pending fetch of handleValidate settles
SpecSession == Init /\ [][NextSession]_vars /\ FetchSettles

----------------------------------------------------------------------------
(* Direct calls of validate on every document *)

InitValidate ==
    /\ InitApp(NoData)
    /\ manifest \in Docs
    /\ result = Null

CallValidate ==
    /\ result = Null
    /\ result' = validate(manifest)
    /\ UNCHANGED <<manifest, appVars>>

NextManifest ==
    /\ result # Null
    /\ manifest' \in Docs
    /\ result' = Null
    /\ UNCHANGED appVars

NextValidate == CallValidate \/ NextManifest

SpecValidate == InitValidate /\ [][NextValidate]_vars

----------------------------------------------------------------------------
(* Properties of validate (SpecValidate) *)

Permissive(m) == safeParse(m, FALSE)

Strict(m) == safeParse(m, TRUE)

Called == result # Null

\* C1: when the permissive match of the manifest fails, validate returns a
\* Failure: success is false, the error is exactly the issue list of the
\* permissive match in its order, and there is no data and no warning; no
\* issue of the strict pass (unrecognized_keys) is among them.
C1_PermissiveFailure ==
    (Called /\ ~Permissive(manifest).success) =>
        /\ DOMAIN result = {"success", "error"}
        /\ result.success = FALSE
        /\ result.error = Permissive(manifest).error
        /\ \A i \in 1..Len(result.error) : result.error[i].code # "unrecognized_keys"

\* a manifest that fails the permissive match and also carries undeclared
\* keys, so that the strict issue list differs, has been validated
C1_Witness ==
    /\ Called
    /\ ~Permissive(manifest).success
    /\ Strict(manifest).error # Permissive(manifest).error
    /\ result.success = FALSE

\* C2: when the permissive match succeeds and the strict match fails, validate
\* returns Success-with-warnings: success is true, data is the output of the
\* permissive pass, warning is exactly the strict issue list, no error.
C2_SuccessWithWarnings ==
    (Called /\ Permissive(manifest).success /\ ~Strict(manifest).success) =>
        /\ DOMAIN result = {"success", "data", "warning"}
        /\ result.success = TRUE
        /\ result.data = Permissive(manifest).data
        /\ result.warning = Strict(manifest).error

C2_Witness ==
    /\ Called
    /\ Permissive(manifest).success
    /\ ~Strict(manifest).success
    /\ result.success
    /\ Len(result.warning) > 0

\* the undeclared fields of a document: at top level and inside the declared
\* object behaviorHints
UndeclaredCount(m) ==
    Cardinality(Keys(m) \ DeclaredKeys)
    + (IF "behaviorHints" \in Keys(m) /\ m.fields["behaviorHints"].kind = "object"
          THEN Cardinality(Keys(m.fields["behaviorHints"]) \ NestedDeclaredKeys)
          ELSE 0)

\* C4: a manifest that conforms to the schema and carries at least one
\* undeclared field, at top level or nested, is a Success-with-warnings whose
\* number of warning issues is the number of undeclared fields.
C4_OneIssuePerUndeclaredField ==
    (Called /\ Permissive(manifest).success /\ UndeclaredCount(manifest) >= 1) =>
        /\ result.success = TRUE
        /\ "warning" \in DOMAIN result
        /\ Len(result.warning) = UndeclaredCount(manifest)

----------------------------------------------------------------------------
(* Properties of the App component (Spec) *)

\* the texts a step may run handleValidate on: the input (validate button)
\* and the decompressed data parameter (mount effect)
RunTexts ==
    {input} \cup
    (IF decompresses(location)
        THEN {decompressFromEncodedURIComponent(location)} ELSE {})

\* this step runs handleValidate on the text t: from the validate button, on
\* the input, or from the mount effect, on the decompressed data parameter
Validates(t) ==
    \/ t = input /\ ClickValidate
    \/ /\ decompresses(location)
       /\ t = decompressFromEncodedURIComponent(location)
       /\ ~IsFalsy(t)
       /\ Load

Success(data) == [success |-> TRUE, data |-> data]

\* C3: validating an input text that is valid JSON and whose value passes both
\* the permissive and the strict match yields Success: success is true with
\* the parsed data, and neither a warning nor an error.
C3_ConformingTextIsSuccess ==
    [][\A t \in RunTexts :
         (/\ parses(t)
          /\ Permissive(parse(t)).success
          /\ Strict(parse(t)).success
          /\ Validates(t))
         => validationResult' = Success(Permissive(parse(t)).data)]_vars

\* a conforming JSON text has been validated from the button: the result is a
\* Success and the input shows that document
C3_Witness ==
    /\ validationResult # Null
    /\ DOMAIN validationResult = {"success", "data"}
    /\ validationResult.success
    /\ parses(input)
    /\ Strict(parse(input)).success
    /\ validationResult.data = parse(input)
    /\ validating = 0
    /\ location = NoData

\* the text of the data parameter, when it decompresses
Shared == decompressFromEncodedURIComponent(location)

\* C5 as claimed: the link produced from a non-empty input t holds t, and
\* loading the application with that link restores the input to exactly t.
C5_LoadRestoresExactText ==
    [][/\ handleShare =>
            /\ decompresses(location')
            /\ decompressFromEncodedURIComponent(location') = input
            /\ clipboard' = location'
       /\ (decompresses(location) /\ ~IsFalsy(trim(Shared)) /\ Load) =>
            input' = Shared]_vars

\* C5, amended: the link produced from a non-empty input t decompresses to
\* exactly t, and loading the application with it leaves in the input t
\* itself when t does not parse as JSON and the two-space serialization of
\* its value when it does (the mount effect validates t, which formats it).
C5_LoadRestoresTextUpToFormatting ==
    [][/\ handleShare =>
            /\ decompresses(location')
            /\ decompressFromEncodedURIComponent(location') = input
            /\ clipboard' = location'
       /\ (decompresses(location) /\ ~IsFalsy(trim(Shared)) /\ Load) =>
            input' = IF parses(Shared) THEN stringify(parse(Shared)) ELSE Shared]_vars

\* the page was loaded from the link shared (and copied) for a JSON text in
\* another layout: the input shows its two-space serialization, with its
\* validation result
C5_Witness ==
    /\ decompresses(location)
    /\ clipboard = location
    /\ parses(Shared)
    /\ stringify(parse(Shared)) # Shared
    /\ input = stringify(parse(Shared))
    /\ validationResult = validate(parse(Shared))
    /\ ~isCopied

\* C6: an auto-fetch pending for an earlier input is dropped once the input
\* changes: a pending timeout is always the one of the current input, and a
\* request in flight that settles changes the input only when the input is
\* still the URL it was started for.
C6_SupersededAutoFetchDropped ==
    /\ [](\A u \in timer : u = trim(input))
    /\ [][\A i \in 1..Len(autoFetching), o \in FetchOutcomes :
            (/\ Len(autoFetching') < Len(autoFetching)
             /\ input' # input
             /\ AutoSettle(i, o))
            => trim(input) = autoFetching[i]]_vars

\* C7 as claimed: a validation that starts and awaits its fetch leaves the
\* result displayed before it in place.
C7_PriorResultKept ==
    [][(validating' > validating /\ ClickValidate)
          => validationResult' = validationResult]_vars

\* C7, amended: handleValidate clears the displayed result when it starts:
\* while a validation awaits its fetch validationResult is null (and
\* isLoading is true), until the new outcome is published.
C7_ResultClearedWhileValidating ==
    validating > 0 => (validationResult = Null /\ isLoading)

\* a validation started from the button awaits its fetch
C7_Witness ==
    /\ validating > 0
    /\ validationResult = Null
    /\ location = NoData
    /\ startsWithHttp(trim(input))

\* responses with a non-success status or a body that is no JSON
BadResponses == {o \in FetchOutcomes : ~o.ok /\ o.why \in {"not ok", "body is not JSON"}}

IsFailure(r) == r # Null /\ ~r.success

\* C8 as claimed: on every path that fetches the URL, a response with a
\* non-success status or an unparsable body makes validationResult a Failure.
C8_EveryFetchFailureSurfaces ==
    [][\A o \in BadResponses :
          (/\ validating' < validating \/ Len(autoFetching') < Len(autoFetching)
           /\ \/ ValidateSettle(o)
              \/ \E i \in 1..Len(autoFetching) : AutoSettle(i, o))
          => IsFailure(validationResult')]_vars

\* C8, amended: when the fetch of handleValidate gets a non-success status or
\* an unparsable body, validationResult becomes a Failure carrying the fetch
\* error; the debounced auto-fetch ignores such a response and leaves the
\* input and validationResult as they were.
C8_ValidateFetchFailureSurfaces ==
    [][\A o \in BadResponses :
          /\ (validating' < validating /\ ValidateSettle(o)) =>
                /\ validationResult' = CustomFailure(FetchMessage(o.why))
                /\ ~isLoading'
          /\ \A i \in 1..Len(autoFetching) :
                (Len(autoFetching') < Len(autoFetching) /\ AutoSettle(i, o)) =>
                    UNCHANGED <<input, validationResult>>]_vars

\* the fetch of a validation settled with a non-success status
C8_Witness ==
    /\ validationResult = CustomFailure(FetchMessage("not ok"))
    /\ validating = 0
    /\ ~isLoading
    /\ startsWithHttp(trim(input))

\* the Failure shape: success false, and an error of at least one issue, each
\* with a code, a path and a message; no data, no warning
FailureShape(r) ==
    /\ DOMAIN r = {"success", "error"}
    /\ r.success = FALSE
    /\ Len(r.error) >= 1
    /\ \A i \in 1..Len(r.error) : {"code", "path", "message"} \subseteq DOMAIN r.error[i]

\* a text whose validation fails before any fetch: empty, malformed JSON, or
\* JSON violating the schema
FailsAtOnce(t) ==
    \/ IsFalsy(trim(t))
    \/ /\ ~startsWithHttp(trim(t))
       /\ ~parses(t) \/ ~Permissive(parse(t)).success

\* C9: every failure of a validation attempt (empty input, network error,
\* non-success status, malformed JSON, schema violation) ends with isLoading
\* false and validationResult in the one Failure shape; a failed result is
\* never of another shape.
C9_FailuresNormalized ==
    /\ [](IsFailure(validationResult) => FailureShape(validationResult))
    /\ [][/\ \A t \in RunTexts :
               (FailsAtOnce(t) /\ Validates(t)) =>
                   (IsFailure(validationResult') /\ FailureShape(validationResult')
                    /\ ~isLoading')
          /\ \A o \in FetchOutcomes :
               (/\ validating' < validating
                /\ ~o.ok \/ ~Permissive(o.data).success
                /\ ValidateSettle(o)) =>
                   (IsFailure(validationResult') /\ FailureShape(validationResult')
                    /\ ~isLoading')]_vars

\* a fetched manifest violated the schema: the failure carries the issue
C9_Witness ==
    /\ IsFailure(validationResult)
    /\ validationResult.error[1].code = "invalid_type"
    /\ startsWithHttp(trim(input))
    /\ validating = 0

\* C10: validating a text that is empty or whitespace alone yields the
\* Failure of the empty input: exactly one issue, at the root path; no fetch
\* is awaited, JSON.parse is not reached (its error is not the one reported)
\* and the input stays the text validated.
C10_BlankInputFailsAtRoot ==
    [][\A t \in RunTexts :
          (IsFalsy(trim(t)) /\ Validates(t)) =>
              /\ validationResult' = CustomFailure("Please enter JSON content or a URL")
              /\ Len(validationResult'.error) = 1
              /\ validationResult'.error[1].path = <<>>
              /\ validating' = 0
              /\ ~isLoading'
              /\ input' = t]_vars

\* a whitespace-only text was validated
C10_Witness ==
    /\ validationResult = CustomFailure("Please enter JSON content or a URL")
    /\ input = [kind |-> "empty", pad |-> TRUE]
    /\ validating = 0

----------------------------------------------------------------------------
(* Further properties of validate (SpecValidate) *)

\* the fields of a document that violate a required-field or type constraint,
\* by their paths: the root when the document is no object, id when missing
\* or no string, behaviorHints when present and no object, behaviorHints.adult
\* when present and no boolean
Offending(m) ==
    IF m.kind # "object" THEN {<<>>}
    ELSE (IF "id" \in Keys(m) /\ m.fields["id"].kind = "string"
             THEN {} ELSE {<<"id">>})
         \cup
         (IF "behaviorHints" \notin Keys(m) THEN {}
          ELSE IF m.fields["behaviorHints"].kind # "object" THEN {<<"behaviorHints">>}
          ELSE IF /\ "adult" \in Keys(m.fields["behaviorHints"])
                  /\ m.fields["behaviorHints"].fields["adult"].kind # "boolean"
                  THEN {<<"behaviorHints", "adult">>}
                  ELSE {})

\* C11: a manifest violating a required-field or type constraint is a Failure,
\* and for each offending field the error holds an issue whose path is the
\* path of that field.
C11_FailurePathsNameOffendingFields ==
    (Called /\ Offending(manifest) # {}) =>
        /\ result.success = FALSE
        /\ "error" \in DOMAIN result
        /\ \A p \in Offending(manifest) :
              \E i \in 1..Len(result.error) : result.error[i].path = p

\* a manifest with a nested field of the wrong type has been validated: the
\* failure names behaviorHints.adult
C11_Witness ==
    /\ Called
    /\ <<"behaviorHints", "adult">> \in Offending(manifest)
    /\ result.success = FALSE
    /\ \E i \in 1..Len(result.error) : result.error[i].path = <<"behaviorHints", "adult">>

----------------------------------------------------------------------------
(* Further properties of the App component (Spec) *)

\* the data parameter is present and decompresses to a non-empty text
HasSharedText == decompresses(location) /\ ~IsFalsy(Shared)

\* the outcome of validating a text that is no URL
OutcomeOf(t) ==
    IF IsFalsy(trim(t)) THEN CustomFailure("Please enter JSON content or a URL")
    ELSE IF parses(t) THEN validate(parse(t))
    ELSE CustomFailure("Invalid JSON format: <message of the error parse threw>")

\* the outcome of validating a URL whose fetch settled with o
FetchedOutcomeOf(o) ==
    IF o.ok THEN validate(o.data) ELSE CustomFailure(FetchMessage(o.why))

\* C12 as claimed: loaded with a data parameter that decompresses to a
\* non-empty text t, the page restores the input to t and validates t itself;
\* the run ends with the outcome of validating t, which is not null.  Without
\* such a parameter the input stays empty and no validation runs.
C12_LoadRestoresAndValidates ==
    [][/\ (HasSharedText /\ Load) =>
            /\ input' = Shared
            /\ IF startsWithHttp(trim(Shared))
                  THEN validating' = 1 /\ isLoading' /\ validationResult' = Null
                  ELSE /\ validating' = 0 /\ ~isLoading'
                       /\ validationResult' = OutcomeOf(Shared)
                       /\ validationResult' # Null
       /\ (~HasSharedText /\ Load) =>
            /\ input' = EmptyString /\ validationResult' = Null
            /\ validating' = 0 /\ ~isLoading'
       /\ \A o \in FetchOutcomes :
            (validating' < validating /\ ValidateSettle(o)) =>
                validationResult' = FetchedOutcomeOf(o) /\ validationResult' # Null]_vars

\* C12, amended: as claimed, except that the input restored is t itself only
\* when t does not parse as JSON; when it does, the validation started on t
\* leaves its two-space serialization in the input.
C12_LoadValidatesSharedText ==
    [][/\ (HasSharedText /\ Load) =>
            /\ input' = IF parses(Shared) THEN stringify(parse(Shared)) ELSE Shared
            /\ IF startsWithHttp(trim(Shared))
                  THEN validating' = 1 /\ isLoading' /\ validationResult' = Null
                  ELSE /\ validating' = 0 /\ ~isLoading'
                       /\ validationResult' = OutcomeOf(Shared)
                       /\ validationResult' # Null
       /\ (~HasSharedText /\ Load) =>
            /\ input' = EmptyString /\ validationResult' = Null
            /\ validating' = 0 /\ ~isLoading'
       /\ \A o \in FetchOutcomes :
            (validating' < validating /\ ValidateSettle(o)) =>
                validationResult' = FetchedOutcomeOf(o) /\ validationResult' # Null]_vars

\* the page was loaded with a link to a URL and the validation it started has
\* ended with the outcome of the fetched manifest
C12_Witness ==
    /\ HasSharedText
    /\ startsWithHttp(trim(Shared))
    /\ input = Shared
    /\ clipboard = NoData
    /\ validating = 0
    /\ validationResult # Null
    /\ validationResult.success

\* C13: dropping a file sets the input from the text of the file: its
\* serialization with two-space indentation when the text parses as JSON, the
\* raw text otherwise; the drop starts no validation and leaves
\* validationResult (and isLoading) as they were.
C13_DropFormatsAndDoesNotValidate ==
    [][\A content \in Texts :
          (~isDragging' /\ handleDrop(content)) =>
              /\ input' = IF parses(content)
                             THEN [kind |-> "json", pad |-> FALSE,
                                   value |-> parse(content), pretty |-> TRUE]
                             ELSE content
              /\ UNCHANGED <<validationResult, isLoading, validating>>]_vars

\* a JSON file in another layout was dragged over the empty page and dropped:
\* the input shows it formatted and nothing was validated
C13_Witness ==
    /\ location = NoData
    /\ parses(input)
    /\ input.pretty
    /\ ~isDragging
    /\ validationResult = Null
    /\ validating = 0
    /\ ~isLoading

\* the three variants of an outcome
IsFailureVariant(r) == DOMAIN r = {"success", "error"} /\ ~r.success

IsWarningVariant(r) == DOMAIN r = {"success", "data", "warning"} /\ r.success

IsSuccessVariant(r) == DOMAIN r = {"success", "data"} /\ r.success

\* C14: the blocks shown depend on the result alone: none for a null result,
\* and for a result exactly one, the error block for a Failure, the warning
\* block for a Success-with-warnings, the success block for a Success; every
\* result reached is of one of the three variants.
C14_OneBlockPerVariant ==
    LET r == validationResult
        shown == ShownBlocks(r)
    IN  IF r = Null THEN shown = {}
        ELSE /\ Cardinality(shown) = 1
             /\ IsFailureVariant(r) \/ IsWarningVariant(r) \/ IsSuccessVariant(r)
             /\ IsFailureVariant(r) => shown = {"error"}
             /\ IsWarningVariant(r) => shown = {"warning"}
             /\ IsSuccessVariant(r) => shown = {"success"}

\* a manifest with an undeclared key was typed and validated: the warning
\* block shows
C14_Witness ==
    /\ location = NoData
    /\ validationResult # Null
    /\ IsWarningVariant(validationResult)
    /\ Len(validationResult.warning) >= 1
    /\ ShownBlocks(validationResult) = {"warning"}

\* C15: handleValidate leaves isLoading true exactly while its fetch is
\* pending: a run that ends at once (blank input, JSON text, malformed JSON)
\* leaves isLoading false and a result, a run on a URL leaves isLoading true
\* until its fetch settles, and the settling, failed or not, sets isLoading
\* false and a result; at most one validation is pending at a time; and, its
\* fetch settling, a pending validation leads to isLoading false and a result.
C15_LoadingLifecycle ==
    /\ HasSharedText =>
          IF startsWithHttp(trim(Shared)) THEN isLoading /\ validating = 1
          ELSE ~isLoading /\ validationResult # Null
    /\ [](validating <= 1 /\ (isLoading <=> validating > 0))
    /\ [][(~isLoading /\ ClickValidate) =>
             IF startsWithHttp(trim(input))
                THEN isLoading' /\ validating' = 1
                ELSE ~isLoading' /\ validationResult' # Null]_vars
    /\ [][\A o \in FetchOutcomes :
             (validating > 0 /\ ValidateSettle(o)) =>
                 ~isLoading' /\ validating' = 0 /\ validationResult' # Null]_vars
    /\ (validating > 0) ~> (~isLoading /\ validationResult # Null)

\* the fetch of a validation started with the button failed on the network
C15_Witness ==
    /\ location = NoData
    /\ startsWithHttp(trim(input))
    /\ validationResult = CustomFailure(FetchMessage("network error"))
    /\ validating = 0
    /\ ~isLoading

\* the condition under which the [input] effect schedules its timeout
AutoFetchable(t) ==
    startsWithHttp(trim(t)) /\ endsWithManifestJson(trim(t))

\* C16: the auto-fetch cannot loop: at most one timeout is pending, and only
\* for the trimmed current input while it is a URL ending with manifest.json;
\* the timeout that fires issues its one request and leaves no timeout behind;
\* a request that settles never schedules a timeout: a response that is ok
\* makes the input a JSON text that fails the condition, any other outcome
\* leaves the input as it is. So timeouts and requests in flight only go down
\* until the user changes the input.
C16_AutoFetchCannotLoop ==
    /\ [](/\ Cardinality(timer) <= 1
          /\ \A u \in timer : u = trim(input) /\ AutoFetchable(input))
    /\ [][(Len(autoFetching') > Len(autoFetching) /\ TimerFire) =>
             /\ timer' = {}
             /\ input' = input
             /\ Len(autoFetching') = Len(autoFetching) + 1]_vars
    /\ [][\A i \in 1..Len(autoFetching), o \in FetchOutcomes :
             (Len(autoFetching') < Len(autoFetching) /\ AutoSettle(i, o)) =>
                 /\ timer' \subseteq timer
                 /\ IF o.ok THEN ~AutoFetchable(input') /\ timer' = {}
                    ELSE input' = input /\ timer' = timer]_vars

\* the timeout of a typed URL fired: its request is in flight, the input is
\* still the URL and no timeout is pending
C16_Witness ==
    /\ location = NoData
    /\ Len(autoFetching) = 1
    /\ autoFetching[1] = trim(input)
    /\ AutoFetchable(input)
    /\ timer = {}

====
